---- MODULE Spec2Model ----
(***************************************************************************)
(* NASBridge failover controller, src/src/server_ping_test.py.             *)
(*                                                                         *)
(* One invocation of main() probes the candidate addresses, compares the   *)
(* overall status with the one persisted by the previous invocation, sends *)
(* all-down / recovery notifications, and (when a candidate answers)       *)
(* rewrites the proxy_pass targets of the nginx rule files.                *)
(*                                                                         *)
(* Text is modelled as a sequence of atoms.  Every atom is a piece of text *)
(* that lies wholly inside one character class of the regular expression   *)
(* of check_and_replace_nginx_proxy_ips_in_dir, so matching and            *)
(* str.replace on atoms agree with matching and str.replace on characters. *)
(***************************************************************************)
EXTENDS Integers, Sequences, FiniteSets, TLC

\* ------------------------------------------------------------------ text

\* Python's None and the empty string: both are falsy in "if ip".
None == <<>>

\* "proxy_pass" followed by white space, the literal part of group 1.
PP == "proxy_pass "
Schemes == {"http://", "https://"}
Digits == {"0", "1", "5", "8"}
\* The atoms of the class [\d.]: the digits and the common network prefix.
Net == "10.0.0."
IpAtoms == Digits \cup {Net}
Colon == ":"
\* The rest of a directive line (";" and the line break).
Eol == ";"

\* The addresses of the deployment (.env): NAS first, then the router.
NasAddr == <<Net, "5">>
OpenwrtAddr == <<Net, "1">>
\* A third upstream that is no candidate; its text extends the router's.
OtherAddr == <<Net, "1", "0">>
Hosts == {NasAddr, OpenwrtAddr, OtherAddr}

\* The longest run of atoms of class cls in text that starts at position i.
RECURSIVE RunEnd(_, _, _)
RunEnd(text, i, cls) ==
    IF i <= Len(text) /\ text[i] \in cls THEN RunEnd(text, i + 1, cls) ELSE i - 1

\* re.finditer(r'(proxy_pass\s+https?://)([\d.]+)(:[\d]+)?', conf): a match
\* starts at every "proxy_pass " that is followed by a scheme and at least
\* one atom of [\d.]; group 2 is greedy, group 3 is optional and greedy.
MatchAt(text, i) ==
    /\ i + 2 <= Len(text)
    /\ text[i] = PP
    /\ text[i + 1] \in Schemes
    /\ text[i + 2] \in IpAtoms

\* The groups of the match that starts at i: prefix, ip, port ('' when absent).
GroupsAt(text, i) ==
    LET ipEnd == RunEnd(text, i + 2, IpAtoms)
        hasPort == /\ ipEnd + 2 <= Len(text)
                   /\ text[ipEnd + 1] = Colon
                   /\ text[ipEnd + 2] \in Digits
        portEnd == IF hasPort THEN RunEnd(text, ipEnd + 2, Digits) ELSE ipEnd
    IN  [prefix |-> SubSeq(text, i, i + 1),
         ip     |-> SubSeq(text, i + 2, ipEnd),
         port   |-> SubSeq(text, ipEnd + 1, portEnd)]

RECURSIVE FindFrom(_, _)
FindFrom(text, i) ==
    IF i > Len(text) THEN <<>>
    ELSE IF MatchAt(text, i) THEN <<GroupsAt(text, i)>> \o FindFrom(text, i + 1)
    ELSE FindFrom(text, i + 1)

finditer(conf) == FindFrom(conf, 1)

\* old occurs in text at position i.
OccursAt(text, old, i) ==
    /\ i + Len(old) - 1 <= Len(text)
    /\ SubSeq(text, i, i + Len(old) - 1) = old

\* str.replace(old, new): every non-overlapping occurrence of old in the
\* whole text, left to right, becomes new.
RECURSIVE ReplaceFrom(_, _, _, _)
ReplaceFrom(text, old, new, i) ==
    IF i > Len(text) THEN <<>>
    ELSE IF OccursAt(text, old, i)
         THEN new \o ReplaceFrom(text, old, new, i + Len(old))
         ELSE <<text[i]>> \o ReplaceFrom(text, old, new, i + 1)

replace(text, old, new) == ReplaceFrom(text, old, new, 1)

\* ------------------------------------------------------ persisted state

\* A state file that does not exist.
Missing == <<"missing">>

DigitChars == <<"0", "1", "2", "3", "4", "5", "6", "7", "8", "9">>

\* str(n) for a natural number: its decimal digits.
RECURSIVE str_int(_)
str_int(n) ==
    IF n < 10 THEN <<DigitChars[n + 1]>>
    ELSE str_int(n \div 10) \o <<DigitChars[(n % 10) + 1]>>

\* str(b) for a boolean: 'True' or 'False'.
str_bool(b) == IF b THEN <<"True">> ELSE <<"False">>

DigitValue(c) == CHOOSE d \in 0..9 : DigitChars[d + 1] = c

IsDecimal(s) ==
    /\ Len(s) > 0
    /\ \A i \in 1..Len(s) : \E d \in 1..10 : DigitChars[d] = s[i]

RECURSIVE int_str(_)
int_str(s) ==
    IF Len(s) = 0 THEN 0
    ELSE 10 * int_str(SubSeq(s, 1, Len(s) - 1)) + DigitValue(s[Len(s)])

\* get_notify_count: int(f.read().strip()), and 0 on any exception (the file
\* is missing, or its content is no integer).
get_notify_count(file) == IF IsDecimal(file) THEN int_str(file) ELSE 0

\* A variant that takes an absent status file for a previous DOWN run.
get_last_run_status_absent_down(file) == file = <<"True">>

\* get_last_run_status: content == 'True'; True when the file cannot be read.
get_last_run_status(file) == IF file = Missing THEN TRUE ELSE file = <<"True">>

\* A variant that persists the negated status.
save_current_status_inverted(is_reachable) == str_bool(~is_reachable)

\* save_current_status writes str(is_reachable).
save_current_status(is_reachable) == str_bool(is_reachable)

\* Contents of a state file (after strip()) that are neither what
\* save_current_status writes nor a decimal number: a truncated file, and a
\* status in another spelling.
Malformed == {<<"">>, <<"true">>}

\* A variant that stops counting at the threshold.
next_count_saturating(n) == IF n >= 2 THEN n ELSE n + 1

\* lines 238 and 263: the value written back, notify_count + 1.
next_count(n) == n + 1

\* The threshold of "if notify_count >= 2".
NotifyThreshold == 2

\* ---------------------------------------------------------- environment

\* The processes that may run main(); invocations of one process are
\* serialized, invocations of different processes may overlap.
AllProcs == {1, 2}
SerialProcs == {1}

\* Bounds of the model.
\* The most consecutive invocations that find every candidate down, and
\* the highest value the persisted counter starts such an invocation with.
MaxDownRuns == 3
\* The most rule files, and the most rules in all of them together.
MaxFiles == 2
MaxRules == 2

\* The rules the initial rule files are built from.
RuleRouter == <<PP, "http://">> \o OpenwrtAddr \o <<Eol>>
RuleOther == <<PP, "http://">> \o OtherAddr \o <<Colon, "8", "0", Eol>>
RuleNas == <<PP, "https://">> \o NasAddr \o <<Colon, "8", "0", Eol>>
Rules == {RuleRouter, RuleOther, RuleNas}

RECURSIVE Concat(_)
Concat(ss) == IF Len(ss) = 0 THEN <<>> ELSE Head(ss) \o Concat(Tail(ss))

SeqsUpTo(S, n) == UNION {[1..k -> S] : k \in 1..n}

\* The initial contents of one .conf file, and of the directory (in the
\* order os.listdir returns the files).
InitFiles == {Concat(rs) : rs \in SeqsUpTo(Rules, MaxRules)}
RECURSIVE RuleCount(_)
RuleCount(dir) ==
    IF Len(dir) = 0 THEN 0 ELSE Len(finditer(Head(dir))) + RuleCount(Tail(dir))
InitDirs == {dir \in SeqsUpTo(InitFiles, MaxFiles) : RuleCount(dir) <= MaxRules}

\* NOTIFY_TYPE, split and lower-cased; other kinds are skipped by the loops.
ChannelLists ==
    {<<"telegram">>, <<"email">>, <<"email", "telegram">>, <<"telegram", "email">>}

\* What one channel does when it is used: "ok" (sent), "fail" (send_message
\* reports failure), "abort" (the notifier's constructor finds its settings
\* missing: TelegramNotifier raises ValueError, EmailNotifier calls sys.exit(1)).
Outcomes == {"ok", "fail", "abort"}

VARIABLES
    up,                  \* the hosts that answer ping, as last probed
    probe,               \* the last call of ping_host on its own, and its result
    NAS_IP, OPENWRT_IP,  \* .env
    NGINX_CONFIG_PATH_AVAILABLE,
    statusFile,          \* content of LAST_RUN_STATUS_FILE
    countFile,           \* content of NOTIFY_COUNT_FILE
    confDir,             \* the .conf files of the directory, in listing order
    pc,                  \* where each invocation stands
    all_unreachable, last_run_unreachable, notify_count,
    idx,                 \* position of the loop over os.listdir
    reload_needed, switch_to_nas, switch_to_openwrt,
    obs,                 \* what each invocation has done so far (history)
    episode,             \* the down-episode so far (history)
    conf0                \* confDir as each invocation found it (history)

envVars == <<NAS_IP, OPENWRT_IP, NGINX_CONFIG_PATH_AVAILABLE, probe>>
storeVars == <<statusFile, countFile>>
reconVars == <<idx, reload_needed, switch_to_nas, switch_to_openwrt>>
mainVars == <<all_unreachable, last_run_unreachable, notify_count>>
vars == <<up, envVars, storeVars, confDir, pc, mainVars, reconVars, obs, episode, conf0>>

\* ------------------------------------------------------------- probing

\* What can happen to one "ping -c 3 -W 5 host": a reply, no reply in time,
\* the network refusing, the name not resolving, no ping binary to launch.
PingOutcomes == {"reply", "timeout", "refused", "dns", "nolaunch"}

\* lines 69-71: subprocess.run raises when the command cannot be launched,
\* else it returns ping's exit status (0 reply, 1 no reply, 2 other error).
subprocess_run(outcome) ==
    IF outcome = "nolaunch" THEN [raised |-> TRUE, returncode |-> 127]
    ELSE [raised |-> FALSE,
          returncode |-> IF outcome = "reply" THEN 0
                         ELSE IF outcome = "dns" THEN 2 ELSE 1]

\* A variant without the except clause of lines 84-86.
ping_host_call_without_except(outcome) ==
    LET result == subprocess_run(outcome)
    IN  IF result.raised THEN [raised |-> TRUE, value |-> FALSE]
        ELSE [raised |-> FALSE, value |-> result.returncode = 0]

\* lines 66-86: one call of ping_host, by the outcome of its command: what it
\* returns and whether it raises to its caller.
ping_host_call(outcome) ==
    LET result == subprocess_run(outcome)
    IN  IF result.raised THEN [raised |-> FALSE, value |-> FALSE]
        ELSE [raised |-> FALSE, value |-> result.returncode = 0]

NoProbe == [host |-> None, outcome |-> "none", raised |-> FALSE, value |-> FALSE]

\* ping_host: True when ping exits with status 0.
ping_host(host, u) == host \in u

\* CANDIDATE_IP_LIST = [ip for ip in [NAS_IP, OPENWRT_IP] if ip]
CANDIDATE_IP_LIST == SelectSeq(<<NAS_IP, OPENWRT_IP>>, LAMBDA ip : ip # None)

\* A variant that reports "all unreachable" as soon as one address is silent.
print_ip_reachability_any(ip_list, u) ==
    \E i \in 1..Len(ip_list) : ~ping_host(ip_list[i], u)

\* print_ip_reachability: True when no address of the list answers.
print_ip_reachability(ip_list, u) ==
    \A i \in 1..Len(ip_list) : ~ping_host(ip_list[i], u)

\* A variant that tries the router before the NAS.
get_first_reachable_ip_router_first(nas_ip, openwrt_ip, u) ==
    IF openwrt_ip # None /\ ping_host(openwrt_ip, u) THEN openwrt_ip
    ELSE IF nas_ip # None /\ ping_host(nas_ip, u) THEN nas_ip
    ELSE None

\* lines 88-95: the NAS when it answers, else the router when it answers.
get_first_reachable_ip_with_priority(nas_ip, openwrt_ip, u) ==
    IF nas_ip # None /\ ping_host(nas_ip, u) THEN nas_ip
    ELSE IF openwrt_ip # None /\ ping_host(openwrt_ip, u) THEN openwrt_ip
    ELSE None

\* ------------------------------------------------------- notification

\* line 209: name_map = {NAS_IP: 'NAS', OPENWRT_IP: 'OPENWRT'}; the later key
\* wins when both settings hold the same address, and name_map.get(ip, ip)
\* falls back to the address.
name_map(ip) ==
    IF ip = OPENWRT_IP THEN <<"OPENWRT">> ELSE IF ip = NAS_IP THEN <<"NAS">> ELSE ip

\* lines 208-213: the candidates that answer the second probe, by name.
RECURSIVE available_devices(_, _)
available_devices(ip_list, u) ==
    IF ip_list = <<>> THEN <<>>
    ELSE (IF ping_host(Head(ip_list), u) THEN <<name_map(Head(ip_list))>> ELSE <<>>)
         \o available_devices(Tail(ip_list), u)

\* The loop "for notify_type in notify_types" inside its try block, from
\* channel i on.  An aborting EmailNotifier ends the process (SystemExit is
\* no Exception); an aborting TelegramNotifier raises into the except clause
\* that encloses the whole loop.
RECURSIVE DispatchFrom(_, _, _)
DispatchFrom(chans, outc, i) ==
    IF i > Len(chans)
    THEN [end |-> "completed", attempted |-> i - 1, configured |-> Len(chans)]
    ELSE IF outc[i] = "abort"
         THEN [end |-> IF chans[i] = "email" THEN "exit" ELSE "raised",
               attempted |-> i, configured |-> Len(chans)]
         ELSE DispatchFrom(chans, outc, i + 1)

Dispatch(chans, outc) == DispatchFrom(chans, outc, 1)

\* Every way one dispatch can go: over the values of NOTIFY_TYPE and over what
\* each channel does.
DispatchResults ==
    {Dispatch(chans, outc) :
        <<chans, outc>> \in UNION {{<<c, o>> : o \in [1..Len(c) -> Outcomes]} :
                                     c \in ChannelLists}}

\* ------------------------------------------------------ reconciliation

\* One pass of "for m in matches": acc carries new_conf, changed and the
\* switch flags; u is what ping reports while the file is evaluated.
\* A variant without the test "new_ip != ip" of line 129.
RuleStep_without_identity_test(acc, m, u) ==
    LET stale == \/ ~ping_host(m.ip, u)
                 \/ (m.ip = OPENWRT_IP /\ NAS_IP # None /\ ping_host(NAS_IP, u))
        new_ip == get_first_reachable_ip_with_priority(NAS_IP, OPENWRT_IP, u)
    IN  IF stale /\ new_ip # None
        THEN [new_conf |-> replace(acc.new_conf,
                                   m.prefix \o m.ip \o m.port,
                                   m.prefix \o new_ip \o m.port),
              changed |-> TRUE,
              switch_to_nas |-> acc.switch_to_nas \/ new_ip = NAS_IP,
              switch_to_openwrt |->
                  acc.switch_to_openwrt \/ (new_ip # NAS_IP /\ new_ip = OPENWRT_IP),
              nocand |-> acc.nocand]
        ELSE [acc EXCEPT !.nocand = acc.nocand \/ (stale /\ new_ip = None)]

RuleStep(acc, m, u) ==
    LET stale == \/ ~ping_host(m.ip, u)
                 \/ (m.ip = OPENWRT_IP /\ NAS_IP # None /\ ping_host(NAS_IP, u))
        new_ip == get_first_reachable_ip_with_priority(NAS_IP, OPENWRT_IP, u)
    IN  IF stale /\ new_ip # None /\ new_ip # m.ip
        THEN [new_conf |-> replace(acc.new_conf,
                                   m.prefix \o m.ip \o m.port,
                                   m.prefix \o new_ip \o m.port),
              changed |-> TRUE,
              switch_to_nas |-> acc.switch_to_nas \/ new_ip = NAS_IP,
              switch_to_openwrt |->
                  acc.switch_to_openwrt \/ (new_ip # NAS_IP /\ new_ip = OPENWRT_IP),
              nocand |-> acc.nocand]
        ELSE [acc EXCEPT !.nocand = acc.nocand \/ (stale /\ new_ip = None)]

RECURSIVE RuleLoop(_, _, _, _)
RuleLoop(acc, matches, j, u) ==
    IF j > Len(matches) THEN acc
    ELSE RuleLoop(RuleStep(acc, matches[j], u), matches, j + 1, u)

\* The body of "for filename in os.listdir(conf_dir)" for one file.
FileStep(conf, sw_nas, sw_ow, u) ==
    RuleLoop([new_conf |-> conf, changed |-> FALSE,
              switch_to_nas |-> sw_nas, switch_to_openwrt |-> sw_ow,
              nocand |-> FALSE],
             finditer(conf), 1, u)

\* A variant that reloads whether or not a file was written.
reload_calls_always(needed) == 1

\* lines 150-153: nginx -s reload runs once, and only when a file was written.
reload_calls(needed) == IF needed THEN 1 ELSE 0

\* lines 151-159: what "nginx -s reload" does: it returns 0, it returns
\* another code, or subprocess.run raises (no nginx binary).  The last two are
\* logged and nothing else.
ReloadOutcomes == {"ok", "nonzero", "raise"}

\* A variant that announces a switch only when a rule went to the NAS.
switch_notify_nas_only(sw_nas, sw_ow) == sw_nas

\* line 163: if switch_to_nas or switch_to_openwrt
switch_notify(sw_nas, sw_ow) == sw_nas \/ sw_ow

\* line 166: the one candidate the switch message names.
switch_name(sw_nas, sw_ow) == IF sw_nas THEN "NAS" ELSE "OPENWRT"

\* --------------------------------------------------------------- runs

\* A variant without the return that ends the all-down branch.
after_all_down_falls_through(end) == IF end = "exit" THEN "exit1" ELSE "recon"

\* lines 241-266: where main() is after the all-down dispatch: ended by
\* sys.exit(1) inside a notifier, or returned at line 266.
after_all_down(end) == IF end = "exit" THEN "exit1" ELSE "done"

Statuses == {"none", "UP", "DOWN"}
StatusOf(unreachable) == IF unreachable THEN "DOWN" ELSE "UP"

\* The history of the probes: the status of the last one, the number of
\* consecutive DOWN ones, whether the counter was 0 before the first of them
\* and written by every run since, the all_down dispatches since the first
\* of them, and the recovery dispatches since the last DOWN one (0, 1, or 2
\* for two and more).
NoEpisode ==
    [last |-> "none", k |-> 0, zero0 |-> TRUE, written |-> TRUE,
     alldowns |-> 0, recoveries |-> 0]

NoObs ==
    [prev |-> "none", recovery |-> FALSE, alldown |-> FALSE, writes |-> 0,
     reloads |-> 0, switched |-> <<>>, flapped |-> FALSE, carry |-> FALSE,
     nocand |-> FALSE, reconciled |-> FALSE, devices |-> <<>>,
     status0 |-> None, called |-> FALSE, count0 |-> None, skipped |-> FALSE,
     ioerr |-> FALSE, reload_failed |-> FALSE, lost |-> FALSE]

\* The addresses a run can probe: the candidates and the targets of the rules.
RECURSIVE TargetsOf(_, _)
TargetsOf(dir, f) ==
    IF f > Len(dir) THEN {}
    ELSE {m.ip : m \in {finditer(dir[f])[j] : j \in 1..Len(finditer(dir[f]))}}
         \cup TargetsOf(dir, f + 1)

Init ==
    /\ up = {}
    /\ probe = NoProbe
    /\ NAS_IP = NasAddr
    /\ OPENWRT_IP = OpenwrtAddr
    /\ \/ NGINX_CONFIG_PATH_AVAILABLE = None /\ confDir = <<>>
       \/ NGINX_CONFIG_PATH_AVAILABLE = <<"sites-available">> /\ confDir \in InitDirs
    /\ statusFile = Missing
    /\ countFile = Missing
    /\ pc = [p \in AllProcs |-> "idle"]
    /\ all_unreachable = [p \in AllProcs |-> FALSE]
    /\ last_run_unreachable = [p \in AllProcs |-> FALSE]
    /\ notify_count = [p \in AllProcs |-> 0]
    /\ idx = [p \in AllProcs |-> 1]
    /\ reload_needed = [p \in AllProcs |-> FALSE]
    /\ switch_to_nas = [p \in AllProcs |-> FALSE]
    /\ switch_to_openwrt = [p \in AllProcs |-> FALSE]
    /\ obs = [p \in AllProcs |-> NoObs]
    /\ episode = NoEpisode
    /\ conf0 = [p \in AllProcs |-> confDir]

Observable == Hosts \cap ({NAS_IP, OPENWRT_IP} \cup TargetsOf(confDir, 1))

Finished(p) == pc[p] \in {"done", "exit1"}

\* The scheduler starts main() again in a new process, after the previous
\* invocation has ended: no local survives from one invocation to the next.
Start(p) ==
    /\ Finished(p)
    /\ pc' = [pc EXCEPT ![p] = "idle"]
    /\ all_unreachable' = [all_unreachable EXCEPT ![p] = FALSE]
    /\ last_run_unreachable' = [last_run_unreachable EXCEPT ![p] = FALSE]
    /\ notify_count' = [notify_count EXCEPT ![p] = 0]
    /\ idx' = [idx EXCEPT ![p] = 1]
    /\ reload_needed' = [reload_needed EXCEPT ![p] = FALSE]
    /\ switch_to_nas' = [switch_to_nas EXCEPT ![p] = FALSE]
    /\ switch_to_openwrt' = [switch_to_openwrt EXCEPT ![p] = FALSE]
    /\ obs' = [obs EXCEPT ![p] =
                 [NoObs EXCEPT !.carry = ~obs[p].flapped,
                               !.lost = /\ pc[p] = "exit1"
                                        /\ obs[p].recovery
                                        /\ ~obs[p].reconciled
                                        /\ ~obs[p].ioerr]]
    /\ conf0' = [conf0 EXCEPT ![p] = confDir]
    /\ UNCHANGED <<up, envVars, storeVars, confDir, episode>>

\* main(), line 199: print_ip_reachability(CANDIDATE_IP_LIST) at the start of
\* an invocation.  u is what the probes of this step report.
Probe(p) ==
    /\ pc[p] = "idle"
    /\ \E u \in SUBSET Observable :
        LET down == print_ip_reachability(CANDIDATE_IP_LIST, u)
        IN  /\ down => /\ episode.k < MaxDownRuns
                        /\ get_notify_count(countFile) < MaxDownRuns
            /\ up' = u
            /\ all_unreachable' = [all_unreachable EXCEPT ![p] = down]
            /\ episode' =
                 [last |-> StatusOf(down),
                  k |-> IF down THEN episode.k + 1 ELSE 0,
                  zero0 |-> IF ~down THEN TRUE
                            ELSE IF episode.k = 0
                                 THEN get_notify_count(countFile) = 0
                                 ELSE episode.zero0,
                  written |-> IF ~down \/ episode.k = 0 THEN TRUE
                              ELSE episode.written,
                  alldowns |-> IF ~down \/ episode.k = 0 THEN 0
                               ELSE episode.alldowns,
                  recoveries |-> IF down THEN 0 ELSE episode.recoveries]
            /\ obs' = [obs EXCEPT ![p].prev = episode.last,
                                  ![p].carry = obs[p].carry /\ u = up]
    /\ pc' = [pc EXCEPT ![p] = "read"]
    /\ conf0' = [conf0 EXCEPT ![p] = confDir]
    /\ UNCHANGED <<envVars, storeVars, confDir, last_run_unreachable, notify_count,
                   reconVars>>

\* line 200: last_run_unreachable = not get_last_run_status()
ReadStatus(p) ==
    /\ pc[p] = "read"
    /\ last_run_unreachable' =
         [last_run_unreachable EXCEPT ![p] = ~get_last_run_status(statusFile)]
    /\ obs' = [obs EXCEPT ![p].status0 = statusFile]
    /\ pc' = [pc EXCEPT ![p] = "save"]
    /\ UNCHANGED <<up, envVars, storeVars, confDir, all_unreachable, notify_count,
                   reconVars, episode, conf0>>

\* A variant that announces a recovery in every run that finds a candidate.
recovery_due_whenever_up(last_unreachable, unreachable) == ~unreachable

\* line 206: if last_run_unreachable and not all_unreachable
recovery_due(last_unreachable, unreachable) == last_unreachable /\ ~unreachable

\* line 203: save_current_status(not all_unreachable), then the branches of
\* lines 206 and 230.
SaveStatus(p) ==
    /\ pc[p] = "save"
    /\ statusFile' = save_current_status(~all_unreachable[p])
    /\ pc' = [pc EXCEPT ![p] =
         IF recovery_due(last_run_unreachable[p], all_unreachable[p]) THEN "recovery"
         ELSE IF all_unreachable[p] THEN "down" ELSE "reset"]
    /\ obs' = [obs EXCEPT ![p].lost = FALSE]
    /\ UNCHANGED <<up, envVars, countFile, confDir, mainVars, reconVars,
                   episode, conf0>>

\* lines 206-228: the recovery notification.  The candidates are probed again
\* for the list of the message, which is sent over the channels of NOTIFY_TYPE.
Recovery(p) ==
    /\ pc[p] = "recovery"
    /\ \E r \in DispatchResults :
            /\ obs' = [obs EXCEPT
                 ![p].recovery = TRUE,
                 ![p].skipped = r.attempted < r.configured,
                 ![p].devices = available_devices(CANDIDATE_IP_LIST, up)]
            /\ pc' = [pc EXCEPT ![p] = IF r.end = "exit" THEN "exit1" ELSE "reset"]
    /\ episode' = [episode EXCEPT !.recoveries = IF episode.recoveries = 0 THEN 1 ELSE 2]
    /\ UNCHANGED <<up, envVars, storeVars, confDir, mainVars, reconVars, conf0>>

\* lines 230-232: notify_count = get_notify_count(NOTIFY_COUNT_FILE)
DownRead(p) ==
    /\ pc[p] = "down"
    /\ notify_count' = [notify_count EXCEPT ![p] = get_notify_count(countFile)]
    /\ pc' = [pc EXCEPT ![p] =
         IF get_notify_count(countFile) >= NotifyThreshold THEN "silent" ELSE "notify"]
    /\ obs' = [obs EXCEPT ![p].count0 = countFile]
    /\ UNCHANGED <<up, envVars, storeVars, confDir, all_unreachable,
                   last_run_unreachable, reconVars, episode, conf0>>

\* lines 235-239: log only, count the run, return.
DownSilent(p) ==
    /\ pc[p] = "silent"
    /\ countFile' = str_int(next_count(notify_count[p]))
    /\ pc' = [pc EXCEPT ![p] = "done"]
    /\ UNCHANGED <<up, envVars, statusFile, confDir, mainVars, reconVars, obs,
                   episode, conf0>>

\* lines 241-266: the all-down notification; the counter is written at the
\* end of the try block, after the loop over the channels.
DownNotify(p) ==
    /\ pc[p] = "notify"
    /\ \E r \in DispatchResults :
            /\ countFile' = IF r.end = "completed"
                            THEN str_int(next_count(notify_count[p])) ELSE countFile
            /\ episode' = [episode EXCEPT
                 !.written = episode.written /\ r.end = "completed",
                 !.alldowns = episode.alldowns + 1]
            /\ pc' = [pc EXCEPT ![p] = after_all_down(r.end)]
            /\ obs' = [obs EXCEPT ![p].alldown = TRUE,
                                  ![p].skipped = r.attempted < r.configured]
    /\ UNCHANGED <<up, envVars, statusFile, confDir, mainVars, reconVars, conf0>>

\* lines 267-274: reset the counter, then call
\* check_and_replace_nginx_proxy_ips_in_dir.
ResetCount(p) ==
    /\ pc[p] = "reset"
    /\ countFile' = str_int(0)
    /\ pc' = [pc EXCEPT ![p] = "recon"]
    /\ obs' = [obs EXCEPT ![p].called = TRUE]
    /\ UNCHANGED <<up, envVars, statusFile, confDir, mainVars, reconVars,
                   episode, conf0>>

\* lines 98-100: no directory, return at once.
ReconNoDir(p) ==
    /\ pc[p] = "recon"
    /\ NGINX_CONFIG_PATH_AVAILABLE = None
    /\ pc' = [pc EXCEPT ![p] = "done"]
    /\ UNCHANGED <<up, envVars, storeVars, confDir, mainVars, reconVars, obs,
                   episode, conf0>>

\* lines 108-143: one file of the directory.
ReconFile(p) ==
    /\ pc[p] = "recon"
    /\ NGINX_CONFIG_PATH_AVAILABLE # None
    /\ idx[p] <= Len(confDir)
    /\ LET r == FileStep(confDir[idx[p]], switch_to_nas[p], switch_to_openwrt[p], up)
        IN  /\ confDir' = IF r.changed
                          THEN [confDir EXCEPT ![idx[p]] = r.new_conf] ELSE confDir
            /\ reload_needed' =
                 [reload_needed EXCEPT ![p] = reload_needed[p] \/ r.changed]
            /\ switch_to_nas' = [switch_to_nas EXCEPT ![p] = r.switch_to_nas]
            /\ switch_to_openwrt' =
                 [switch_to_openwrt EXCEPT ![p] = r.switch_to_openwrt]
            /\ obs' = [obs EXCEPT
                 ![p].writes = obs[p].writes + (IF r.changed THEN 1 ELSE 0),
                 ![p].nocand = obs[p].nocand \/ r.nocand]
    /\ idx' = [idx EXCEPT ![p] = idx[p] + 1]
    /\ pc' = pc
    /\ UNCHANGED <<up, envVars, storeVars, mainVars, episode, conf0>>

\* lines 145-176: after the loop, the reload and the switch notification.
ReconFinish(p) ==
    /\ pc[p] = "recon"
    /\ NGINX_CONFIG_PATH_AVAILABLE # None
    /\ idx[p] > Len(confDir)
    /\ \E r \in DispatchResults, rc \in ReloadOutcomes :
        LET notify == switch_notify(switch_to_nas[p], switch_to_openwrt[p])
        IN  /\ obs' = [obs EXCEPT
                 ![p].reloads = obs[p].reloads + reload_calls(reload_needed[p]),
                 ![p].reload_failed = reload_needed[p] /\ rc # "ok",
                 ![p].switched =
                     IF notify
                     THEN Append(obs[p].switched,
                                 switch_name(switch_to_nas[p], switch_to_openwrt[p]))
                     ELSE obs[p].switched,
                 ![p].skipped =
                     obs[p].skipped \/ (notify /\ r.attempted < r.configured),
                 ![p].reconciled = TRUE]
            /\ pc' = [pc EXCEPT ![p] =
                 IF notify /\ r.end = "exit" THEN "exit1" ELSE "done"]
    /\ UNCHANGED <<up, envVars, storeVars, confDir, mainVars, reconVars,
                   episode, conf0>>

\* The environment: the reachability of the hosts changes while an
\* invocation is between two of its probes.
Flap(p) ==
    /\ pc[p] \in {"recovery", "recon"}
    /\ pc[p] = "recon" => idx[p] <= Len(confDir)
    /\ \E u \in SUBSET Observable : u # up /\ up' = u
    /\ obs' = [obs EXCEPT ![p].flapped = TRUE]
    /\ UNCHANGED <<envVars, storeVars, confDir, pc, mainVars, reconVars,
                   episode, conf0>>

Step(p) ==
    \/ Start(p)
    \/ Probe(p)
    \/ ReadStatus(p)
    \/ SaveStatus(p)
    \/ Recovery(p)
    \/ DownRead(p)
    \/ DownSilent(p)
    \/ DownNotify(p)
    \/ ResetCount(p)
    \/ ReconNoDir(p)
    \/ ReconFile(p)
    \/ ReconFinish(p)
    \/ Flap(p)

\* The steps of main() itself, without the scheduler and the environment.
Run(p) ==
    \/ ReadStatus(p)
    \/ SaveStatus(p)
    \/ Recovery(p)
    \/ DownRead(p)
    \/ DownSilent(p)
    \/ DownNotify(p)
    \/ ResetCount(p)
    \/ ReconNoDir(p)
    \/ ReconFile(p)
    \/ ReconFinish(p)

\* Serialized invocations: the scheduler starts main() again only after the
\* previous invocation has ended.
Next == \E p \in SerialProcs : Step(p)

Spec == Init /\ [][Next]_vars

\* The state files are damaged or removed between two invocations.
Corrupt ==
    /\ \A p \in SerialProcs : pc[p] = "idle"
    /\ \/ /\ statusFile' \in (Malformed \cup {Missing}) \ {statusFile}
          /\ UNCHANGED countFile
       \/ /\ countFile' \in (Malformed \cup {Missing}) \ {countFile}
          /\ UNCHANGED statusFile
    /\ UNCHANGED <<up, envVars, confDir, pc, mainVars, reconVars, obs, episode, conf0>>

NextCorrupt == Next \/ Corrupt

\* Serialized invocations whose state files can be damaged between them.
SpecCorrupt == Init /\ [][NextCorrupt]_vars

\* line 115: open(file_path, 'r') raises (the file is unreadable).  Nothing
\* between the loop and the top of the script catches the exception: the
\* interpreter prints the traceback and exits with code 1.
ReconReadError(p) ==
    /\ pc[p] = "recon"
    /\ NGINX_CONFIG_PATH_AVAILABLE # None
    /\ idx[p] <= Len(confDir)
    /\ obs' = [obs EXCEPT ![p].ioerr = TRUE]
    /\ pc' = [pc EXCEPT ![p] = "exit1"]
    /\ UNCHANGED <<up, envVars, storeVars, confDir, mainVars, reconVars,
                   episode, conf0>>

\* line 141: the file has to be rewritten and open(file_path, 'w') raises (the
\* file is unwritable); the file keeps its content and the exception ends the
\* process as above.
ReconWriteError(p) ==
    /\ pc[p] = "recon"
    /\ NGINX_CONFIG_PATH_AVAILABLE # None
    /\ idx[p] <= Len(confDir)
    /\ LET r == FileStep(confDir[idx[p]], switch_to_nas[p], switch_to_openwrt[p], up)
        IN  /\ r.changed
            /\ switch_to_nas' = [switch_to_nas EXCEPT ![p] = r.switch_to_nas]
            /\ switch_to_openwrt' =
                 [switch_to_openwrt EXCEPT ![p] = r.switch_to_openwrt]
    /\ obs' = [obs EXCEPT ![p].ioerr = TRUE]
    /\ pc' = [pc EXCEPT ![p] = "exit1"]
    /\ UNCHANGED <<up, envVars, storeVars, confDir, mainVars, idx, reload_needed,
                   episode, conf0>>

NextIO ==
    \/ Next
    \/ \E p \in SerialProcs : ReconReadError(p) \/ ReconWriteError(p)

\* Serialized invocations in which reading or writing a rule file can fail.
SpecIO == Init /\ [][NextIO]_vars

\* The state after construction for any .env: each of NAS_IP, OPENWRT_IP and
\* NGINX_CONFIG_PATH_AVAILABLE is set or unset (os.getenv returns None).
InitEnv ==
    /\ up = {}
    /\ probe = NoProbe
    /\ NAS_IP \in {None, NasAddr}
    /\ OPENWRT_IP \in {None, OpenwrtAddr}
    /\ \/ NGINX_CONFIG_PATH_AVAILABLE = None /\ confDir = <<>>
       \/ NGINX_CONFIG_PATH_AVAILABLE = <<"sites-available">> /\ confDir \in InitDirs
    /\ statusFile = Missing
    /\ countFile = Missing
    /\ pc = [p \in AllProcs |-> "idle"]
    /\ all_unreachable = [p \in AllProcs |-> FALSE]
    /\ last_run_unreachable = [p \in AllProcs |-> FALSE]
    /\ notify_count = [p \in AllProcs |-> 0]
    /\ idx = [p \in AllProcs |-> 1]
    /\ reload_needed = [p \in AllProcs |-> FALSE]
    /\ switch_to_nas = [p \in AllProcs |-> FALSE]
    /\ switch_to_openwrt = [p \in AllProcs |-> FALSE]
    /\ obs = [p \in AllProcs |-> NoObs]
    /\ episode = NoEpisode
    /\ conf0 = [p \in AllProcs |-> confDir]

\* Serialized invocations under any .env.
SpecEnv == InitEnv /\ [][Next]_vars

\* The state after construction for an .env that names one device in both
\* NAS_IP and OPENWRT_IP.
InitSame ==
    /\ up = {}
    /\ probe = NoProbe
    /\ NAS_IP = NasAddr
    /\ OPENWRT_IP = NasAddr
    /\ \/ NGINX_CONFIG_PATH_AVAILABLE = None /\ confDir = <<>>
       \/ NGINX_CONFIG_PATH_AVAILABLE = <<"sites-available">> /\ confDir \in InitDirs
    /\ statusFile = Missing
    /\ countFile = Missing
    /\ pc = [p \in AllProcs |-> "idle"]
    /\ all_unreachable = [p \in AllProcs |-> FALSE]
    /\ last_run_unreachable = [p \in AllProcs |-> FALSE]
    /\ notify_count = [p \in AllProcs |-> 0]
    /\ idx = [p \in AllProcs |-> 1]
    /\ reload_needed = [p \in AllProcs |-> FALSE]
    /\ switch_to_nas = [p \in AllProcs |-> FALSE]
    /\ switch_to_openwrt = [p \in AllProcs |-> FALSE]
    /\ obs = [p \in AllProcs |-> NoObs]
    /\ episode = NoEpisode
    /\ conf0 = [p \in AllProcs |-> confDir]

\* Serialized invocations with one device behind both settings.
SpecSame == InitSame /\ [][Next]_vars

\* One call of ping_host on its own: the host answers the later probes of the
\* model exactly when this call returned True.
PingCall ==
    \E host \in Hosts, outcome \in PingOutcomes :
        LET r == ping_host_call(outcome)
        IN  /\ probe' = [host |-> host, outcome |-> outcome,
                         raised |-> r.raised, value |-> r.value]
            /\ up' = IF r.value THEN up \cup {host} ELSE up \ {host}
            /\ UNCHANGED <<NAS_IP, OPENWRT_IP, NGINX_CONFIG_PATH_AVAILABLE, storeVars,
                           confDir, pc, mainVars, reconVars, obs, episode, conf0>>

\* ping_host called with every host and every outcome of its command.
SpecPing == Init /\ [][PingCall]_vars

\* The state after construction with one directory of two rule files, or
\* with none.
InitLive ==
    /\ up = {}
    /\ probe = NoProbe
    /\ NAS_IP = NasAddr
    /\ OPENWRT_IP = OpenwrtAddr
    /\ \/ NGINX_CONFIG_PATH_AVAILABLE = None /\ confDir = <<>>
       \/ NGINX_CONFIG_PATH_AVAILABLE = <<"sites-available">>
          /\ confDir = <<RuleRouter, RuleNas>>
    /\ statusFile = Missing
    /\ countFile = Missing
    /\ pc = [p \in AllProcs |-> "idle"]
    /\ all_unreachable = [p \in AllProcs |-> FALSE]
    /\ last_run_unreachable = [p \in AllProcs |-> FALSE]
    /\ notify_count = [p \in AllProcs |-> 0]
    /\ idx = [p \in AllProcs |-> 1]
    /\ reload_needed = [p \in AllProcs |-> FALSE]
    /\ switch_to_nas = [p \in AllProcs |-> FALSE]
    /\ switch_to_openwrt = [p \in AllProcs |-> FALSE]
    /\ obs = [p \in AllProcs |-> NoObs]
    /\ episode = NoEpisode
    /\ conf0 = [p \in AllProcs |-> confDir]

\* Serialized invocations with an interpreter that keeps executing a started
\* invocation: every statement of main() returns (ping ends after its 3
\* probes, the notifiers return, raise or exit), so the next one is
\* eventually executed.
SpecFair == InitLive /\ [][Next]_vars /\ \A p \in SerialProcs : WF_vars(Run(p))

\* ------------------------------------------------------------- claims

\* The rules of a directory: <<f, j>> is the j-th proxy_pass of file f.
RulesIn(dir) ==
    {r \in (1..Len(dir)) \X (1..MaxRules) : r[2] <= Len(finditer(dir[r[1]]))}
RuleAt(dir, r) == finditer(dir[r[1]])[r[2]]

\* An invocation has ended (exit code 0 or 1) and found a candidate up.
UpRunEnded(p) == Finished(p) /\ ~all_unreachable[p]
DownRunEnded(p) == Finished(p) /\ all_unreachable[p]

\* The candidates in priority order, and the best one that answers in u.
Candidates == {NAS_IP, OPENWRT_IP} \ {None}
Priority(ip) == IF ip = NAS_IP THEN 1 ELSE 2
Reachable(u) == {c \in Candidates : c \in u}
Best(u) == CHOOSE c \in Reachable(u) : \A d \in Reachable(u) : Priority(c) <= Priority(d)

\* C1: a run dispatches the recovery notification exactly when its overall
\* status is UP and the status of the run before it was DOWN.
C1_RecoveryIffUpAfterDown ==
    \A p \in SerialProcs :
        Finished(p) =>
            (obs[p].recovery <=> (episode.last = "UP" /\ obs[p].prev = "DOWN"))

C1_Witness ==
    \E p \in SerialProcs :
        Finished(p) /\ obs[p].recovery /\ obs[p].prev = "DOWN" /\ episode.last = "UP"

\* C2: in a down-episode that began with the persisted counter at 0, the k-th
\* consecutive DOWN run dispatches all_down exactly when k <= 2.
C2_AllDownIffWithinThreshold ==
    \A p \in SerialProcs :
        (DownRunEnded(p) /\ episode.zero0) =>
            (obs[p].alldown <=> episode.k <= NotifyThreshold)

\* C3: the selector returns the reachable candidate of lowest priority
\* number, and None exactly when no candidate is reachable.
C3_SelectsBestReachable ==
    LET sel == get_first_reachable_ip_with_priority(NAS_IP, OPENWRT_IP, up)
    IN  /\ (sel = None) <=> (Reachable(up) = {})
        /\ Reachable(up) # {} => sel = Best(up)

\* Both candidates answer and the selector has just moved a rule to the NAS.
C3_Witness ==
    \E p \in SerialProcs :
        /\ pc[p] = "recon" /\ idx[p] > 1 /\ ~obs[p].flapped
        /\ Reachable(up) = {NAS_IP, OPENWRT_IP}
        /\ \E r \in RulesIn(conf0[p]) :
               /\ RuleAt(conf0[p], r).ip # NAS_IP
               /\ RuleAt(confDir, r).ip = NAS_IP

\* C4: in an UP run during which the NAS answers, every rule that targeted
\* the router is rewritten to the NAS, one switch notification names the
\* NAS, and the reload runs once.
C4_PreemptiveFailback ==
    \A p \in SerialProcs :
        (UpRunEnded(p) /\ ~obs[p].flapped /\ NAS_IP \in up) =>
            LET pre == {r \in RulesIn(conf0[p]) : RuleAt(conf0[p], r).ip = OPENWRT_IP}
            IN  /\ \A r \in pre : RuleAt(confDir, r).ip = NAS_IP
                /\ pre # {} => (obs[p].switched = <<"NAS">> /\ obs[p].reloads = 1)

\* C5: in an UP run with stable reachability, every rule whose target did
\* not answer ends on the best reachable candidate, scheme and port kept.
C5_FailoverRewrite ==
    \A p \in SerialProcs :
        (UpRunEnded(p) /\ ~obs[p].flapped) =>
            \A r \in RulesIn(conf0[p]) :
                RuleAt(conf0[p], r).ip \notin up =>
                    /\ RuleAt(confDir, r).ip = Best(up)
                    /\ RuleAt(confDir, r).prefix = RuleAt(conf0[p], r).prefix
                    /\ RuleAt(confDir, r).port = RuleAt(conf0[p], r).port

\* C6: the second of two consecutive UP runs under one unchanged
\* reachability writes no file, reloads nothing and announces no switch.
C6_SecondRunIdle ==
    \A p \in SerialProcs :
        (UpRunEnded(p) /\ obs[p].prev = "UP" /\ obs[p].carry /\ ~obs[p].flapped) =>
            (obs[p].writes = 0 /\ obs[p].reloads = 0 /\ obs[p].switched = <<>>)

RewrittenTo(p) ==
    {IF RuleAt(confDir, r).ip = NAS_IP THEN "NAS" ELSE "OPENWRT" :
        r \in {q \in RulesIn(conf0[p]) :
                 /\ RuleAt(confDir, q).ip # RuleAt(conf0[p], q).ip
                 /\ RuleAt(confDir, q).ip \in Candidates}}

\* C8: a run announces each candidate some rule was rewritten to, once,
\* and announces nothing when no rule was rewritten.
C8_OneSwitchPerCandidate ==
    \A p \in SerialProcs :
        (Finished(p) /\ obs[p].reconciled) =>
            /\ {obs[p].switched[i] : i \in 1..Len(obs[p].switched)} = RewrittenTo(p)
            /\ Len(obs[p].switched) = Cardinality(RewrittenTo(p))

\* C9: a rule whose own target answers and is not preempted keeps its
\* address, port and scheme, whatever happens to the other rules.
C9_HealthyRuleUntouched ==
    \A p \in SerialProcs :
        (Finished(p) /\ obs[p].reconciled /\ ~obs[p].flapped) =>
            \A r \in RulesIn(conf0[p]) :
                (/\ RuleAt(conf0[p], r).ip \in up
                 /\ ~(RuleAt(conf0[p], r).ip = OPENWRT_IP /\ NAS_IP \in up)) =>
                    RuleAt(confDir, r) = RuleAt(conf0[p], r)

\* C10: once a run is past line 203 the persisted status is its overall
\* status, which is UP exactly when a candidate answered the probe.
C10_StatusPersisted ==
    \A p \in SerialProcs :
        /\ pc[p] \in {"read", "save"} =>
               (episode.last = "UP" <=> Reachable(up) # {})
        /\ pc[p] \notin {"idle", "read", "save"} =>
               (statusFile = <<"True">> <=> episode.last = "UP")
               /\ statusFile \in {<<"True">>, <<"False">>}

C10_Witness ==
    \E p \in SerialProcs :
        /\ pc[p] = "done" /\ all_unreachable[p] /\ ~obs[p].alldown
        /\ statusFile = <<"False">>

\* C11: every DOWN run leaves the persisted counter one above the value it
\* read, whether the all_down notification was dispatched, suppressed or failed.
C11_CounterPlusOne ==
    \A p \in SerialProcs :
        DownRunEnded(p) => get_notify_count(countFile) = notify_count[p] + 1

\* C12: when a run has ended with overall status UP the persisted counter is
\* 0, so between runs a persisted status of True implies a counter of 0.
C12_CounterZeroAfterUp ==
    \A p \in SerialProcs :
        /\ UpRunEnded(p) => get_notify_count(countFile) = 0
        /\ (Finished(p) /\ statusFile = <<"True">>) => get_notify_count(countFile) = 0

\* C13: a run whose overall status is DOWN never enters reconciliation: it
\* writes no rule file, reloads nothing and announces no switch.
C13_DownRunNoReconciliation ==
    \A p \in SerialProcs :
        all_unreachable[p] =>
            /\ pc[p] # "recon"
            /\ ~obs[p].reconciled
            /\ obs[p].writes = 0 /\ obs[p].reloads = 0 /\ obs[p].switched = <<>>
            /\ confDir = conf0[p]

\* A DOWN run has ended while a rule of the directory targets a silent host.
C13_Witness ==
    \E p \in SerialProcs :
        /\ DownRunEnded(p)
        /\ \E r \in RulesIn(confDir) : RuleAt(confDir, r).ip \notin up

\* C14: a run that reads a status of True, or finds no status file, and whose
\* own status is UP dispatches neither all_down nor recovery, and calls the
\* reconciliation, which runs to its end when a directory is configured.
C14_UpAfterUpReconciles ==
    \A p \in SerialProcs :
        (~all_unreachable[p] /\ obs[p].status0 \in {<<"True">>, Missing}) =>
            /\ ~obs[p].recovery /\ ~obs[p].alldown
            /\ pc[p] \notin {"recovery", "down", "silent", "notify"}
            /\ Finished(p) =>
                   /\ obs[p].called
                   /\ NGINX_CONFIG_PATH_AVAILABLE # None => obs[p].reconciled

\* An UP run that read a status of True has ended, having rewritten a file.
C14_Witness ==
    \E p \in SerialProcs :
        /\ UpRunEnded(p) /\ obs[p].status0 = <<"True">>
        /\ obs[p].reconciled /\ obs[p].writes > 0

\* C15: a run that finds the status file missing or malformed goes on as if
\* the previous run had been UP, so it dispatches no recovery; a run that
\* finds the counter missing or malformed reads it as 0.
C15_SafeDefaults ==
    \A p \in SerialProcs :
        /\ (obs[p].status0 # None /\ obs[p].status0 \notin {<<"True">>, <<"False">>}) =>
               /\ pc[p] # "read" => ~last_run_unreachable[p]
               /\ pc[p] # "recovery" /\ ~obs[p].recovery
        /\ (obs[p].count0 # None /\ ~IsDecimal(obs[p].count0)) => notify_count[p] = 0

\* C16: every dispatch of a run attempts each channel of the configured
\* list, whatever the earlier channels of the list did.
C16_ChannelsIndependent ==
    \A p \in SerialProcs : ~obs[p].skipped

\* C17: a run that dispatched recovery, however the dispatch went, still
\* resets the counter to 0, still calls the reconciliation and runs it to its
\* end, and ends with exit code 0.
C17_RecoveryFailureHarmless ==
    \A p \in SerialProcs :
        (Finished(p) /\ obs[p].recovery) =>
            /\ pc[p] = "done"
            /\ get_notify_count(countFile) = 0
            /\ obs[p].called
            /\ NGINX_CONFIG_PATH_AVAILABLE # None => obs[p].reconciled

\* C18: a run in which reading or writing a rule file failed still visits
\* every file of the directory and runs the reconciliation to its end, with
\* the reload and the switch notification when it rewrote another file.
C18_IOErrorSkipsFile ==
    \A p \in SerialProcs :
        (Finished(p) /\ obs[p].ioerr) =>
            /\ idx[p] > Len(confDir)
            /\ obs[p].reconciled
            /\ obs[p].writes >= 1 => (obs[p].reloads = 1 /\ obs[p].switched # <<>>)

\* C19: when the reload of a run failed, every file the run rewrote still
\* holds its new content, the switch notification was dispatched and the run
\* ended with exit code 0.
C19_ReloadFailureTolerated ==
    \A p \in SerialProcs :
        (Finished(p) /\ obs[p].reload_failed) =>
            /\ Cardinality({f \in 1..Len(confDir) : confDir[f] # conf0[p][f]})
                   = obs[p].writes
            /\ obs[p].writes >= 1
            /\ obs[p].switched # <<>>
            /\ pc[p] = "done"

\* C20: with no candidate address or no config directory configured, a run
\* ends with exit code 1 before it probes: it never gets past its start,
\* dispatches nothing and leaves the persisted status and counter alone.
C20_MissingSettingFatal ==
    \A p \in SerialProcs :
        (CANDIDATE_IP_LIST = <<>> \/ NGINX_CONFIG_PATH_AVAILABLE = None) =>
            /\ pc[p] \in {"idle", "exit1"}
            /\ statusFile = Missing /\ countFile = Missing
            /\ ~obs[p].alldown /\ ~obs[p].recovery /\ obs[p].switched = <<>>

\* The test of line 127 for a rule, and the rules of a file that pass it
\* while the selector returns their own target.
Stale(m, u) ==
    \/ ~ping_host(m.ip, u)
    \/ (m.ip = OPENWRT_IP /\ NAS_IP # None /\ ping_host(NAS_IP, u))
NoOpRules(conf, u) ==
    {j \in 1..Len(finditer(conf)) :
        /\ Stale(finditer(conf)[j], u)
        /\ get_first_reachable_ip_with_priority(NAS_IP, OPENWRT_IP, u)
               = finditer(conf)[j].ip}

\* C21: a rule that is evaluated for rewriting while the selector returns its
\* own target changes nothing: the content, the changed flag and the switch
\* flags come out of its evaluation as they went in, so a file whose rules
\* are all kept or no-ops is not written.
C21_NoOpSelection ==
    \A p \in SerialProcs :
        (pc[p] = "recon" /\ idx[p] <= Len(confDir)) =>
            LET conf == confDir[idx[p]]
                ms == finditer(conf)
                acc0 == [new_conf |-> conf, changed |-> FALSE,
                         switch_to_nas |-> switch_to_nas[p],
                         switch_to_openwrt |-> switch_to_openwrt[p],
                         nocand |-> FALSE]
                before(j) == RuleLoop(acc0, SubSeq(ms, 1, j - 1), 1, up)
            IN  /\ \A j \in NoOpRules(conf, up) :
                       RuleStep(before(j), ms[j], up) = before(j)
                /\ (\A j \in 1..Len(ms) : j \in NoOpRules(conf, up) \/ ~Stale(ms[j], up)) =>
                       FileStep(conf, switch_to_nas[p], switch_to_openwrt[p], up) = acc0

\* A run has evaluated a file with a no-op rule and left it as it was, and
\* has ended without a write, a reload or a switch notification.
C21_Witness ==
    \E p \in SerialProcs :
        /\ pc[p] = "done" /\ obs[p].reconciled /\ ~obs[p].flapped
        /\ Len(confDir) = 1 /\ NoOpRules(confDir[1], up) # {}
        /\ confDir = conf0[p]
        /\ obs[p].writes = 0 /\ obs[p].reloads = 0 /\ obs[p].switched = <<>>

\* C22: a call of ping_host does not raise to its caller; it returns True
\* exactly when its command replied, and False for every failure, so the
\* hosts that answer are those whose last call returned True.
C22_PingNeverRaises ==
    /\ ~probe.raised
    /\ probe.value \in BOOLEAN
    /\ probe.host # None =>
           /\ probe.value <=> probe.outcome = "reply"
           /\ ping_host(probe.host, up) <=> probe.value

\* ping_host has returned False because its command could not be launched.
C22_Witness ==
    probe.host # None /\ probe.outcome = "nolaunch" /\ ~probe.value /\ probe.host \notin up

\* C23: while a run is between its read of the persisted state and its end,
\* the status file holds what the run loaded, and in a DOWN run so does the
\* counter until the dispatch is over.
C23_StateWrittenAtEnd ==
    \A p \in SerialProcs :
        /\ pc[p] \in {"save", "recovery", "down", "silent", "notify", "reset", "recon"} =>
               statusFile = obs[p].status0
        /\ pc[p] \in {"silent", "notify"} => countFile = obs[p].count0

\* C24: every decision of a run uses the verdict of its first probe: a run
\* whose overall status is UP never finds a stale rule with no reachable
\* candidate and never dispatches a recovery message that lists no device.
C24_SingleVerdict ==
    \A p \in SerialProcs :
        ~all_unreachable[p] =>
            /\ ~obs[p].nocand
            /\ obs[p].recovery => obs[p].devices # <<>>

\* C25: in a down-episode that began with the counter at 0 and in which
\* every DOWN run wrote the counter, the persisted counter after the n-th
\* DOWN run is n, beyond the threshold too, while all_down is dispatched
\* exactly in the runs that read a value below the threshold.
C25_CounterUnbounded ==
    \A p \in SerialProcs :
        (DownRunEnded(p) /\ episode.zero0 /\ episode.written) =>
            /\ countFile = str_int(episode.k)
            /\ get_notify_count(countFile) = episode.k
            /\ obs[p].alldown <=> notify_count[p] < NotifyThreshold

\* The third DOWN run of an episode has ended in silence with the counter at 3.
C25_Witness ==
    \E p \in SerialProcs :
        /\ DownRunEnded(p) /\ episode.zero0 /\ episode.written
        /\ episode.k = NotifyThreshold + 1 /\ ~obs[p].alldown
        /\ get_notify_count(countFile) = NotifyThreshold + 1

\* C26: every run that has probed its candidates eventually ends, and it
\* ends after the DOWN branch or after the reconciliation was called, with
\* its overall status persisted.
C26_RunsToCompletion ==
    /\ \A p \in SerialProcs : (pc[p] = "read") ~> Finished(p)
    /\ [](\A p \in SerialProcs :
            Finished(p) =>
                /\ all_unreachable[p] \/ obs[p].called
                /\ statusFile = str_bool(~all_unreachable[p]))

\* The state after construction with one directory of one rule file, or with
\* none.
InitConc ==
    /\ up = {}
    /\ probe = NoProbe
    /\ NAS_IP = NasAddr
    /\ OPENWRT_IP = OpenwrtAddr
    /\ \/ NGINX_CONFIG_PATH_AVAILABLE = None /\ confDir = <<>>
       \/ NGINX_CONFIG_PATH_AVAILABLE = <<"sites-available">>
          /\ confDir = <<RuleRouter>>
    /\ statusFile = Missing
    /\ countFile = Missing
    /\ pc = [p \in AllProcs |-> "idle"]
    /\ all_unreachable = [p \in AllProcs |-> FALSE]
    /\ last_run_unreachable = [p \in AllProcs |-> FALSE]
    /\ notify_count = [p \in AllProcs |-> 0]
    /\ idx = [p \in AllProcs |-> 1]
    /\ reload_needed = [p \in AllProcs |-> FALSE]
    /\ switch_to_nas = [p \in AllProcs |-> FALSE]
    /\ switch_to_openwrt = [p \in AllProcs |-> FALSE]
    /\ obs = [p \in AllProcs |-> NoObs]
    /\ episode = NoEpisode
    /\ conf0 = [p \in AllProcs |-> confDir]

\* Overlapping invocations: the script takes no lock (nothing in main() or at
\* line 278 does), so an invocation started by hand executes the statements
\* of main() between any two statements of the scheduled invocations.  The
\* reachability of the devices changes at the probes of the two.
Overlap(p) == Probe(p) \/ Run(p)

NextConc == Start(1) \/ Probe(1) \/ Run(1) \/ Overlap(2)

SpecConc == InitConc /\ [][NextConc]_vars

\* C27: within one down-episode (consecutive DOWN probes that began with the
\* counter at 0) at most NotifyThreshold all_down notifications are
\* dispatched, also when two invocations overlap.
C27_AllDownAtMostThreshold ==
    episode.zero0 => episode.alldowns <= NotifyThreshold

\* C28: after a DOWN probe, the UP runs that follow dispatch at most one
\* recovery notification, also when two of them overlap.
C28_RecoveryAtMostOnce ==
    episode.recoveries <= 1

\* Rule file i holds a rule whose address differs from the one it had when
\* the run started.
AddressRewritten(p, i) ==
    LET before == finditer(conf0[p][i])
        after == finditer(confDir[i])
    IN  \E k \in 1..Len(before) : after[k].ip # before[k].ip

\* C29: in a run that completed reconciliation, the switch notification was
\* dispatched exactly when the reload was invoked, and that exactly when a
\* rule file was written, each written file holding a rule with another
\* address than before; a run that rewrote nothing has neither.
C29_SwitchIffReloadIffRewritten ==
    \A p \in SerialProcs :
        obs[p].reconciled =>
            /\ obs[p].switched # <<>> <=> obs[p].reloads = 1
            /\ obs[p].reloads = 1 <=> obs[p].writes >= 1
            /\ obs[p].writes >= 1 <=> confDir # conf0[p]
            /\ \A i \in 1..Len(confDir) :
                 confDir[i] # conf0[p][i] => AddressRewritten(p, i)
            /\ confDir = conf0[p] =>
                 /\ obs[p].switched = <<>>
                 /\ obs[p].reloads = 0

\* A run rewrote rules to OPENWRT only, reloaded with a failing reload command
\* and announced the switch; another completed run rewrote nothing.
C29_Witness ==
    \E p \in SerialProcs :
        /\ obs[p].reconciled
        /\ confDir # conf0[p]
        /\ \A q \in RulesIn(confDir) :
             RuleAt(confDir, q).ip \in {OPENWRT_IP, RuleAt(conf0[p], q).ip}
        /\ obs[p].reloads = 1
        /\ obs[p].reload_failed
        /\ obs[p].switched = <<"OPENWRT">>

\* C30: after a DOWN probe, at most one of the UP runs that follow attempts
\* the recovery dispatch, whatever became of it: a run that attempts it found
\* 'False' in the status file, left by a DOWN run, and has replaced it by
\* 'True' before dispatching, so an UP run after an UP run loads
\* last_run_unreachable = False.
C30_RecoveryAttemptedOnce ==
    \A p \in SerialProcs :
        /\ episode.recoveries <= 1
        /\ pc[p] = "recovery" =>
             /\ episode.recoveries = 0
             /\ obs[p].prev = "DOWN"
             /\ obs[p].status0 = str_bool(FALSE)
             /\ statusFile = str_bool(TRUE)
        /\ (obs[p].prev = "UP" /\ pc[p] \notin {"idle", "read"} /\ ~all_unreachable[p]) =>
             /\ ~last_run_unreachable[p]
             /\ ~obs[p].recovery

\* The run before this one was ended by sys.exit() inside its recovery
\* dispatch; this one found the candidates reachable, has read the status
\* file and goes on without recovery.
C30_Witness ==
    \E p \in SerialProcs :
        /\ pc[p] = "save"
        /\ obs[p].lost
        /\ obs[p].prev = "UP"
        /\ ~all_unreachable[p]
        /\ ~last_run_unreachable[p]
        /\ episode.recoveries = 1
====
